---- MODULE Spec2Model ----
(***************************************************************************)
(* FinTrack backend (src/backend/server.py): the SMS transaction           *)
(* extractor, merchant cleanup, keyword categorizer, payment webhook and   *)
(* the transaction store with its HTTP handlers.                           *)
(*                                                                         *)
(* Text is modelled as a sequence of one-character strings, so that        *)
(* trimming, substring search and pattern matching are computed character  *)
(* by character.  An amount is an integer number of hundredths.  A date    *)
(* is an integer day number.                                               *)
(***************************************************************************)
EXTENDS Integers, Sequences, FiniteSets, TLC

VARIABLES
    store,   \* db.transactions, documents in insertion (natural) order
    today,   \* the day datetime.now() reports
    nextId,  \* number of uuid4 identifiers issued so far
    req,     \* the request handled last
    resp,    \* the response it was given
    fin,     \* input of the pure function under study
    fout     \* results of the pure function under study, in order

vars == <<store, today, nextId, req, resp, fin, fout>>

\* An optional value is a sequence of at most one element: None is Python's
\* None (or an absent field), Some(x) is the value x.
None == <<>>
Some(x) == <<x>>
Get(o) == o[1]

----------------------------------------------------------------------------
(* Characters and strings                                                  *)

\* the lower-case letter of each upper-case letter
LowerOf ==
    [A |-> "a", B |-> "b", C |-> "c", D |-> "d", E |-> "e", F |-> "f",
     G |-> "g", H |-> "h", I |-> "i", J |-> "j", K |-> "k", L |-> "l",
     M |-> "m", N |-> "n", O |-> "o", P |-> "p", Q |-> "q", R |-> "r",
     S |-> "s", T |-> "t", U |-> "u", V |-> "v", W |-> "w", X |-> "x",
     Y |-> "y", Z |-> "z"]

DigitChars == <<"0","1","2","3","4","5","6","7","8","9">>

\* str.lower() on one character
LowerChar(c) == IF c \in DOMAIN LowerOf THEN LowerOf[c] ELSE c

\* str.lower()
Lower(s) == [i \in 1..Len(s) |-> LowerChar(s[i])]

\* \s of the pattern engine, and the characters str.strip() removes
IsSpace(c) == c \in {" ", "\t", "\n", "\r"}

\* \d of the pattern engine
IsDigit(c) == c \in {"0","1","2","3","4","5","6","7","8","9"}

\* the value of a decimal digit
DigitVal(c) == (CHOOSE i \in 1..10 : DigitChars[i] = c) - 1

\* str.strip(): drop leading and trailing whitespace
Strip(s) ==
    LET keep == {i \in 1..Len(s) : ~IsSpace(s[i])}
    IN  IF keep = {} THEN <<>>
        ELSE LET lo == CHOOSE i \in keep : \A j \in keep : i <= j
                 hi == CHOOSE i \in keep : \A j \in keep : j <= i
             IN  SubSeq(s, lo, hi)

\* Python's `kw in s`
IsSubstring(kw, s) ==
    \E i \in 1..(Len(s) - Len(kw) + 1) : SubSeq(s, i, i + Len(kw) - 1) = kw

\* the elements of a sequence
Range(q) == {q[i] : i \in 1..Len(q)}

----------------------------------------------------------------------------
(* Merchant cleanup (parse_sms_transaction, lines 112-116)                 *)

\* re.sub(r'\s+', ' ', s): every maximal run of whitespace becomes one space
RECURSIVE CollapseSpaces(_)
CollapseSpaces(s) ==
    IF s = <<>> THEN <<>>
    ELSE IF IsSpace(s[1])
         THEN IF Len(s) > 1 /\ IsSpace(s[2])
              THEN CollapseSpaces(Tail(s))
              ELSE <<" ">> \o CollapseSpaces(Tail(s))
         ELSE <<s[1]>> \o CollapseSpaces(Tail(s))

\* s.replace('*', '')
RemoveStars(s) == SelectSeq(s, LAMBDA c : c # "*")

\* match.group(2).strip(), re.sub(r'\s+', ' ', .), .replace('*', '').strip()
CleanMerchant(raw) == Strip(RemoveStars(CollapseSpaces(Strip(raw))))

----------------------------------------------------------------------------
(* Categorizer (auto_categorize_transaction, lines 136-158)                *)

FoodKeywords ==
    << <<"s","w","i","g","g","y">>,
       <<"z","o","m","a","t","o">>,
       <<"u","b","e","r"," ","e","a","t","s">>,
       <<"d","o","m","i","n","o","s">>,
       <<"p","i","z","z","a">>,
       <<"r","e","s","t","a","u","r","a","n","t">>,
       <<"c","a","f","e">>,
       <<"f","o","o","d">>,
       <<"k","i","t","c","h","e","n">>,
       <<"b","i","r","y","a","n","i">> >>

TransportKeywords ==
    << <<"u","b","e","r">>,
       <<"o","l","a">>,
       <<"r","a","p","i","d","o">>,
       <<"m","e","t","r","o">>,
       <<"b","u","s">>,
       <<"t","a","x","i">>,
       <<"p","e","t","r","o","l">>,
       <<"f","u","e","l">> >>

ShoppingKeywords ==
    << <<"a","m","a","z","o","n">>,
       <<"f","l","i","p","k","a","r","t">>,
       <<"m","y","n","t","r","a">>,
       <<"a","j","i","o">>,
       <<"s","h","o","p","p","i","n","g">>,
       <<"m","a","l","l">>,
       <<"s","t","o","r","e">> >>

BillsKeywords ==
    << <<"e","l","e","c","t","r","i","c","i","t","y">>,
       <<"w","a","t","e","r">>,
       <<"g","a","s">>,
       <<"i","n","t","e","r","n","e","t">>,
       <<"m","o","b","i","l","e">>,
       <<"r","e","c","h","a","r","g","e">>,
       <<"b","i","l","l">> >>

\* any(keyword in merchant_lower for keyword in keywords)
AnyKeyword(keywords, merchant_lower) ==
    \E j \in 1..Len(keywords) : IsSubstring(keywords[j], merchant_lower)

\* a mutant that tests the Transport keywords before the Food keywords
auto_categorize_transport_first(merchant) ==
    LET merchant_lower == Lower(merchant)
    IN  IF AnyKeyword(TransportKeywords, merchant_lower) THEN "Transport"
        ELSE IF AnyKeyword(FoodKeywords, merchant_lower) THEN "Food"
        ELSE IF AnyKeyword(ShoppingKeywords, merchant_lower) THEN "Shopping"
        ELSE IF AnyKeyword(BillsKeywords, merchant_lower) THEN "Bills"
        ELSE "Others"

auto_categorize_transaction(merchant) ==
    LET merchant_lower == Lower(merchant)
    IN  IF AnyKeyword(FoodKeywords, merchant_lower) THEN "Food"
        ELSE IF AnyKeyword(TransportKeywords, merchant_lower) THEN "Transport"
        ELSE IF AnyKeyword(ShoppingKeywords, merchant_lower) THEN "Shopping"
        ELSE IF AnyKeyword(BillsKeywords, merchant_lower) THEN "Bills"
        ELSE "Others"
----------------------------------------------------------------------------
(* SMS patterns (SMS_PATTERNS, lines 83-89).  Every pattern has the shape  *)
(*   PREFIX (\d+(?:\.\d{2})?) .+? VERB .+? PREP \s+ (.+?) TERM             *)
(* with TERM = (?:\s+on|\s+UPI|\s+Card|\.|$); a pattern is the record of   *)
(* its PREFIX, VERB and PREP alternatives, each in the order written.      *)
(* A prefix alternative is a literal, optionally followed by \.? ;         *)
(* `ws` says whether \s* stands between the prefix and the amount.         *)

L_Rs == <<"R","s">>
L_RsDot == <<"R","s",".">>
L_INR == <<"I","N","R">>
L_spent == <<"s","p","e","n","t">>
L_debited == <<"d","e","b","i","t","e","d">>
L_paid == <<"p","a","i","d">>
L_at == <<"a","t">>
L_on == <<"o","n">>
L_to == <<"t","o">>
L_UPI == <<"U","P","I">>
L_Card == <<"C","a","r","d">>

BankVerbs == <<L_spent, L_debited>>
BankPreps == <<L_at, L_on>>

PAT_sbi ==
    [prefix |-> << [lit |-> L_RsDot, optDot |-> FALSE] >>, ws |-> FALSE,
     verbs |-> BankVerbs, preps |-> BankPreps]

PAT_hdfc ==
    [prefix |-> << [lit |-> L_Rs, optDot |-> FALSE] >>, ws |-> TRUE,
     verbs |-> BankVerbs, preps |-> BankPreps]

PAT_icici ==
    [prefix |-> << [lit |-> L_RsDot, optDot |-> FALSE] >>, ws |-> FALSE,
     verbs |-> BankVerbs, preps |-> BankPreps]

PAT_axis ==
    [prefix |-> << [lit |-> L_INR, optDot |-> FALSE] >>, ws |-> TRUE,
     verbs |-> BankVerbs, preps |-> BankPreps]

PAT_generic ==
    [prefix |-> << [lit |-> L_Rs, optDot |-> TRUE],
                   [lit |-> L_INR, optDot |-> FALSE] >>, ws |-> TRUE,
     verbs |-> <<L_spent, L_debited, L_paid>>,
     preps |-> <<L_at, L_on, L_to>>]

\* the table, in declaration order: bank key and pattern
SMS_PATTERNS ==
    << [bank |-> <<"s","b","i">>, pattern |-> PAT_sbi],
       [bank |-> <<"h","d","f","c">>, pattern |-> PAT_hdfc],
       [bank |-> <<"i","c","i","c","i">>, pattern |-> PAT_icici],
       [bank |-> <<"a","x","i","s">>, pattern |-> PAT_axis],
       [bank |-> <<"g","e","n","e","r","i","c">>, pattern |-> PAT_generic] >>

NoMatch == [matched |-> FALSE]

\* the least and the greatest element of a non-empty set of integers
MinOf(S) == CHOOSE x \in S : \A y \in S : x <= y
MaxOf(S) == CHOOSE x \in S : \A y \in S : y <= x

\* a literal, compared without regard to case, at position i of s; ls is
\* s lower-cased
LitAt(lit, ls, i) ==
    /\ i >= 1
    /\ i + Len(lit) - 1 <= Len(ls)
    /\ SubSeq(ls, i, i + Len(lit) - 1) = Lower(lit)

\* `.` matches any character but "\n": .{b-a+1} can cover s[a..b]
Dots(s, a, b) == \A j \in a..b : s[j] # "\n"

\* \s{b-a+1} can cover s[a..b]
AllSpace(s, a, b) == \A j \in a..b : IsSpace(s[j])

\* TERM = (?:\s+on|\s+UPI|\s+Card|\.|$) matches at e
TermAt(s, ls, e) ==
    \/ e = Len(s) + 1
    \/ e = Len(s) /\ s[e] = "\n"
    \/ e <= Len(s) /\ s[e] = "."
    \/ \E r \in (e+1)..Len(s) :
           /\ AllSpace(s, e, r - 1)
           /\ LitAt(L_on, ls, r) \/ LitAt(L_UPI, ls, r) \/ LitAt(L_Card, ls, r)

\* (.+?) TERM from p can end the merchant group at e
IsMerchEnd(s, ls, p, e) == Dots(s, p, e - 1) /\ TermAt(s, ls, e)

\* (.+?) TERM from p: the ends e of the merchant group
MerchEnds(s, ls, p) == {e \in (p+1)..(Len(s)+1) : IsMerchEnd(s, ls, p, e)}

\* \s+ (.+?) TERM from q: the starts r of the merchant group; MOK holds the
\* positions from which (.+?) TERM matches
IsSpaceEnd(s, MOK, q, r) == AllSpace(s, q, r - 1) /\ r \in MOK

SpaceEnds(s, MOK, q) == {r \in (q+1)..Len(s) : IsSpaceEnd(s, MOK, q, r)}

\* PREP \s+ (.+?) TERM from k: the alternatives that lead to a match; ROK
\* holds the positions from which \s+ (.+?) TERM matches
IsPrepAlt(P, ls, ROK, k, j) ==
    LitAt(P.preps[j], ls, k) /\ (k + Len(P.preps[j])) \in ROK

PrepAlts(P, ls, ROK, k) ==
    {j \in 1..Len(P.preps) : IsPrepAlt(P, ls, ROK, k, j)}

\* .+? PREP ... from v: the starts k of PREP; KOK holds the positions from
\* which PREP \s+ (.+?) TERM matches
PrepStarts(s, KOK, v) == {k \in KOK : k > v /\ Dots(s, v, k - 1)}

\* VERB .+? PREP ... from u: the alternatives that lead to a match; G2OK
\* holds the positions from which .+? PREP ... matches
IsVerbAlt(P, ls, G2OK, u, j) ==
    LitAt(P.verbs[j], ls, u) /\ (u + Len(P.verbs[j])) \in G2OK

VerbAlts(P, ls, G2OK, u) ==
    {j \in 1..Len(P.verbs) : IsVerbAlt(P, ls, G2OK, u, j)}

\* .+? VERB ... from a: the starts u of VERB; UOK holds the positions from
\* which VERB .+? PREP ... matches
VerbStarts(s, UOK, a) == {u \in UOK : u > a /\ Dots(s, a, u - 1)}

\* \d+ from d: its possible ends
DigitEnds(s, d) ==
    {m \in (d+1)..(Len(s)+1) : \A j \in d..(m-1) : IsDigit(s[j])}

\* (?:\.\d{2}) matches at m
HasFrac(s, m) ==
    /\ m + 2 <= Len(s)
    /\ s[m] = "."
    /\ IsDigit(s[m+1])
    /\ IsDigit(s[m+2])

\* (\d+(?:\.\d{2})?) from d: the ends of the amount group from which the
\* rest matches; G1OK holds the positions from which .+? VERB ... matches
AmountEnds(s, G1OK, d) ==
    {a \in G1OK :
        \/ a \in DigitEnds(s, d)
        \/ (a - 3) \in DigitEnds(s, d) /\ HasFrac(s, a - 3)}

\* the ends of \d+ are tried longest first, each with its fraction first:
\* the end tried first has the greatest rank
Rank(s, d, a) == IF a \in DigitEnds(s, d) THEN 2 * a ELSE 2 * (a - 3) + 1

\* PREFIX \s* from i, alternative j: where the amount group starts
AfterPrefix(P, s, i, j) ==
    LET e0 == i + Len(P.prefix[j].lit)
        e1 == IF P.prefix[j].optDot /\ e0 <= Len(s) /\ s[e0] = "."
              THEN e0 + 1 ELSE e0
    IN  IF P.ws
        THEN MaxOf({r \in e1..(Len(s)+1) : AllSpace(s, e1, r - 1)})
        ELSE e1

\* the prefix alternatives at i that lead to a match
IsPrefixAlt(P, s, ls, G1OK, i, j) ==
    /\ LitAt(P.prefix[j].lit, ls, i)
    /\ AmountEnds(s, G1OK, AfterPrefix(P, s, i, j)) # {}

PrefixAlts(P, s, ls, G1OK, i) ==
    {j \in 1..Len(P.prefix) : IsPrefixAlt(P, s, ls, G1OK, i, j)}

\* The match is put together left to right, each choice the first one in
\* the backtracking order from which the rest of the pattern matches.
Pick9(s, r, e, d, a) ==
    [matched |-> TRUE, group1 |-> SubSeq(s, d, a - 1),
     group2 |-> SubSeq(s, r, e - 1)]

Pick8(s, ls, r, d, a) == Pick9(s, r, MinOf(MerchEnds(s, ls, r)), d, a)

Pick7(s, ls, MOK, q, d, a) ==
    Pick8(s, ls, MaxOf(SpaceEnds(s, MOK, q)), d, a)

Pick6(P, s, ls, MOK, ROK, k, d, a) ==
    Pick7(s, ls, MOK, k + Len(P.preps[MinOf(PrepAlts(P, ls, ROK, k))]), d, a)

Pick5(P, s, ls, MOK, ROK, KOK, v, d, a) ==
    Pick6(P, s, ls, MOK, ROK, MinOf(PrepStarts(s, KOK, v)), d, a)

Pick4(P, s, ls, MOK, ROK, KOK, G2OK, u, d, a) ==
    Pick5(P, s, ls, MOK, ROK, KOK,
          u + Len(P.verbs[MinOf(VerbAlts(P, ls, G2OK, u))]), d, a)

Pick3(P, s, ls, MOK, ROK, KOK, G2OK, UOK, d, a) ==
    Pick4(P, s, ls, MOK, ROK, KOK, G2OK, MinOf(VerbStarts(s, UOK, a)), d, a)

Pick2(P, s, ls, MOK, ROK, KOK, G2OK, UOK, d, ends) ==
    Pick3(P, s, ls, MOK, ROK, KOK, G2OK, UOK, d,
          CHOOSE x \in ends : \A y \in ends : Rank(s, d, y) <= Rank(s, d, x))

Pick1(P, s, ls, MOK, ROK, KOK, G2OK, UOK, G1OK, i) ==
    Pick2(P, s, ls, MOK, ROK, KOK, G2OK, UOK,
          AfterPrefix(P, s, i, MinOf(PrefixAlts(P, s, ls, G1OK, i))),
          AmountEnds(s, G1OK,
              AfterPrefix(P, s, i, MinOf(PrefixAlts(P, s, ls, G1OK, i)))))

\* the leftmost start from which the whole pattern matches, if any
Search7(P, s, ls, MOK, ROK, KOK, G2OK, UOK, G1OK, Starts) ==
    IF Starts = {} THEN NoMatch
    ELSE Pick1(P, s, ls, MOK, ROK, KOK, G2OK, UOK, G1OK, MinOf(Starts))

Search6(P, s, ls, MOK, ROK, KOK, G2OK, UOK, G1OK) ==
    Search7(P, s, ls, MOK, ROK, KOK, G2OK, UOK, G1OK,
            {i \in 1..Len(s) :
                \E j \in 1..Len(P.prefix) : IsPrefixAlt(P, s, ls, G1OK, i, j)})

Search5(P, s, ls, MOK, ROK, KOK, G2OK, UOK) ==
    Search6(P, s, ls, MOK, ROK, KOK, G2OK, UOK,
            {a \in 1..Len(s) : \E u \in UOK : u > a /\ Dots(s, a, u - 1)})

Search4(P, s, ls, MOK, ROK, KOK, G2OK) ==
    Search5(P, s, ls, MOK, ROK, KOK, G2OK,
            {u \in 1..Len(s) :
                \E j \in 1..Len(P.verbs) : IsVerbAlt(P, ls, G2OK, u, j)})

Search3(P, s, ls, MOK, ROK, KOK) ==
    Search4(P, s, ls, MOK, ROK, KOK,
            {v \in 1..Len(s) : \E k \in KOK : k > v /\ Dots(s, v, k - 1)})

Search2(P, s, ls, MOK, ROK) ==
    Search3(P, s, ls, MOK, ROK,
            {k \in 1..Len(s) :
                \E j \in 1..Len(P.preps) : IsPrepAlt(P, ls, ROK, k, j)})

Search1(P, s, ls, MOK) ==
    Search2(P, s, ls, MOK,
            {q \in 1..Len(s) :
                \E r \in (q+1)..Len(s) : IsSpaceEnd(s, MOK, q, r)})

\* re.search(pattern, s, re.IGNORECASE): the leftmost match, and within it the
\* one the backtracking order finds first (greedy \d+, \s+, \s* and optional
\* groups take the most first, lazy .+? takes the least first, alternatives
\* are tried in the order written).  The positions from which each suffix of
\* the pattern matches are found right to left, the match is then picked
\* left to right.
ReSearch(P, s) ==
    Search1(P, s, Lower(s),
            {p \in 1..Len(s) :
                \E e \in (p+1)..(Len(s)+1) : IsMerchEnd(s, Lower(s), p, e)})

----------------------------------------------------------------------------
(* SMS extraction (parse_sms_transaction, lines 91-134)                    *)

\* the value of a string of decimal digits
RECURSIVE DecVal(_)
DecVal(ds) ==
    IF ds = <<>> THEN 0
    ELSE 10 * DecVal(SubSeq(ds, 1, Len(ds) - 1)) + DigitVal(ds[Len(ds)])

\* float(text), in hundredths: digits with an optional fraction are a number
\* (read to two places); any other text raises ValueError
Float(text) ==
    LET dots == {i \in 1..Len(text) : text[i] = "."}
        cut == IF dots = {} THEN Len(text) + 1 ELSE MinOf(dots)
        ip == SubSeq(text, 1, cut - 1)
        fp == SubSeq(text, cut + 1, Len(text))
        fp2 == SubSeq(fp \o <<"0","0">>, 1, 2)
    IN  IF /\ ip # <<>>
           /\ \A i \in 1..Len(ip) : IsDigit(ip[i])
           /\ \A i \in 1..Len(fp) : IsDigit(fp[i])
        THEN [ok |-> TRUE, val |-> 100 * DecVal(ip) + DecVal(fp2)]
        ELSE [ok |-> FALSE]

\* `if sender:` is false for None and for the empty string
Truthy(sender) == sender # None /\ Get(sender) # <<>>

\* a mutant that puts the generic fallback first
PatternsToTryGenericFirst(sender) ==
    <<PAT_generic>> \o
    (IF Truthy(sender)
     THEN LET hit == SelectSeq(SMS_PATTERNS,
                         LAMBDA e : IsSubstring(e.bank, Lower(Get(sender))))
          IN  [i \in 1..Len(hit) |-> hit[i].pattern]
     ELSE <<>>)

\* patterns_to_try (lines 98-106): the rules whose bank key occurs in the
\* lower-cased sender, in table order, then the generic pattern
PatternsToTry(sender) ==
    (IF Truthy(sender)
     THEN LET hit == SelectSeq(SMS_PATTERNS,
                         LAMBDA e : IsSubstring(e.bank, Lower(Get(sender))))
          IN  [i \in 1..Len(hit) |-> hit[i].pattern]
     ELSE <<>>)
    \o <<PAT_generic>>

L_PaymentTo == <<"P","a","y","m","e","n","t"," ","t","o"," ">>

\* lines 111-129: the dict built from a match, "raised" when float() throws
BuildResult(amount, merchant, day) ==
    IF ~amount.ok THEN [kind |-> "raise"]
    ELSE [kind |-> "return",
          value |-> Some([amount |-> amount.val,
                          description |-> L_PaymentTo \o merchant,
                          merchant |-> merchant,
                          category |-> auto_categorize_transaction(merchant),
                          type |-> "expense",
                          date |-> day,
                          source |-> "sms"])]

\* the loop of lines 108-131 from pattern j on: the dict returned at the
\* first match, None when the patterns run out
RECURSIVE TryPatterns(_, _, _, _)
OnSearch(patterns, j, sms_text, day, match) ==
    IF match.matched
    THEN BuildResult(Float(match.group1), CleanMerchant(match.group2), day)
    ELSE TryPatterns(patterns, j + 1, sms_text, day)

TryPatterns(patterns, j, sms_text, day) ==
    IF j > Len(patterns) THEN [kind |-> "return", value |-> None]
    ELSE OnSearch(patterns, j, sms_text, day, ReSearch(patterns[j], sms_text))

\* the whole function: an exception anywhere in the body is caught at line
\* 132 and None is returned
parse_sms_transaction_direct(sms_text, sender, day) ==
    LET r == TryPatterns(PatternsToTry(sender), 1, Strip(sms_text), day)
    IN  IF r.kind = "raise" THEN None ELSE r.value

----------------------------------------------------------------------------
(* Bounds and the inputs the requests are drawn from                       *)

MaxStore == 2     \* documents the store may hold
MaxIds == 2       \* uuid4 identifiers that may be issued
MaxDay == 2       \* last day the clock reaches
MaxRawLen == 5    \* length of a raw merchant string
MaxWords == 3     \* words in a merchant name
MaxClauses == 2   \* clauses in an SMS message

\* amounts are hundredths
CreateAmounts == {250}
Types == {"income", "expense", "transfer"}
WebhookAmounts == {-500, 0, 30000}
PathServices == {"swiggy", "gpay", "paytm"}
BodyServices == {"zomato"}
Timestamps == {2}

M_paid == <<"R","s",".","2","0"," ","p","a","i","d"," ","t","o"," ","A">>
M_spentB == <<"R","s"," ","3","0"," ","s","p","e","n","t"," ","a","t"," ","B","*">>
M_ola ==
    <<"I","N","R"," ","5",".","0","0","d","e","b","i","t","e","d"," ","o","n",
      " ","1"," ","a","t"," ","O","l","a"," ","U","P","I">>
M_otp == <<"Y","o","u","r"," ","O","T","P"," ","i","s"," ","8","3","4","5">>
M_zero == <<"R","s",".","0"," ","s","p","e","n","t"," ","a","t"," ","X"," ","Y">>
M_blank == <<" "," ">>

S_hdfc == <<"V","M","-","H","D","F","C","B","K">>
S_sbiaxis == <<"S","B","I","-","A","X","I","S">>
S_icici == <<"I","C","I","C","I","B">>
S_jio == <<"J","I","O">>

\* raw merchant strings: every string over these characters up to MaxRawLen
NormAlphabet == {"A", " ", "\t", "*"}
RawMerchants == UNION {[1..k -> NormAlphabet] : k \in 0..MaxRawLen}

\* the concatenation of a sequence of strings, `sep` between neighbours
RECURSIVE Join(_, _)
Join(parts, sep) ==
    IF parts = <<>> THEN <<>>
    ELSE IF Len(parts) = 1 THEN parts[1]
    ELSE parts[1] \o sep \o Join(Tail(parts), sep)

\* merchant names: up to MaxWords of these words, written together
CatWords ==
    { <<"S","w","i","g","g","y">>, <<"P","e","t","r","o","l">>,
      <<"U","B","E","R">>, <<" ">>, <<"E","a","t","s">>,
      <<"M","a","l","l">>, <<"B","i","l","l">>, <<"Q">> }
CatMerchants ==
    {Join(ws, <<>>) : ws \in UNION {[1..k -> CatWords] : k \in 0..MaxWords}}

\* SMS messages: up to MaxClauses of these clauses, ". " between them
SmsClauses == {M_paid, M_spentB, M_ola, M_zero, M_blank}
SmsMessages ==
    {Join(cs, <<".", " ">>) :
        cs \in UNION {[1..k -> SmsClauses] : k \in 0..MaxClauses}}
SmsSenders ==
    {None, Some(<<>>), Some(S_hdfc), Some(S_sbiaxis), Some(S_icici), Some(S_jio)}

\* the requests of the server specification
SrvMessages == {M_paid, M_zero, M_otp, M_blank, <<>>}
SrvSenders == {None, Some(S_hdfc)}
SrvMerchants == {<<"Z">>}
SrvDescriptions == {<<"L">>}

Updates ==
    [amount : {None, Some(700)}, description : {None}, date : {None},
     category : {None}, type : {None, Some("income")}]

\* the function on the server's request inputs, evaluated once
SrvExtractions ==
    {<<<<m, s, d>>, parse_sms_transaction_direct(m, s, d)>> :
        m \in SrvMessages, s \in SrvSenders, d \in 1..MaxDay}

\* the value recorded for key in table, or else the value computed afresh
Memoized(table, key, computed) ==
    IF \E e \in table : e[1] = key
    THEN (CHOOSE e \in table : e[1] = key)[2]
    ELSE computed

\* parse_sms_transaction, looked up where it was evaluated before
parse_sms_transaction(sms_text, sender, day) ==
    Memoized(SrvExtractions, <<sms_text, sender, day>>,
             parse_sms_transaction_direct(sms_text, sender, day))

----------------------------------------------------------------------------
(* The store and the HTTP handlers                                         *)

\* PAYMENT_SERVICES (lines 61-80): display name and fixed category by key
PAYMENT_SERVICES ==
    [swiggy |-> [name |-> <<"S","w","i","g","g","y">>, category |-> "Food"],
     zomato |-> [name |-> <<"Z","o","m","a","t","o">>, category |-> "Food"],
     gpay |-> [name |-> <<"G","o","o","g","l","e"," ","P","a","y">>,
               category |-> "Transfer"]]

L_paymentTo == <<" ","p","a","y","m","e","n","t"," ","t","o"," ">>

\* Transaction(...).dict() (lines 31-38): id and created_at take their
\* defaults (a fresh uuid4, the current time) when not given
TransactionDict(id, amount, description, date, category, type, created_at, fresh, day) ==
    [id |-> IF id = None THEN fresh ELSE Get(id),
     amount |-> amount,
     description |-> description,
     date |-> date,
     category |-> category,
     type |-> type,
     created_at |-> IF created_at = None THEN day ELSE Get(created_at),
     webhook_data |-> None]

\* db.transactions.find_one({"id": id}): the first such document, or None
FindOne(st, id) ==
    LET hits == {i \in 1..Len(st) : st[i].id = id}
    IN  IF hits = {} THEN None ELSE Some(st[MinOf(hits)])

\* raise HTTPException(status_code, detail)
HTTPException(status, detail) ==
    [kind |-> "raise", exc |-> "HTTPException", status |-> status,
     detail |-> detail]

\* a handler's return value, answered with status 200
Return(body) == [kind |-> "return", body |-> body]

\* try: ... except Exception as e: raise HTTPException(500, detail=str(e))
\* HTTPException is itself an Exception, so one raised in the body is caught
\* and answered as 500 like any other
TryExcept(outcome) ==
    IF outcome.kind = "raise"
    THEN [status |-> 500, detail |-> outcome]
    ELSE [status |-> 200, body |-> outcome.body]

\* what a handler leaves behind: the store and its response
Result(st, outcome) == [store |-> st, resp |-> TryExcept(outcome)]

\* create_transaction (lines 269-278)
create_transaction(st, transaction) ==
    LET transaction_dict == transaction
        st1 == Append(st, transaction_dict)
        created_transaction == FindOne(st1, transaction_dict.id)
    IN  Result(st1, Return([message |-> "Transaction created successfully",
                            transaction |-> created_transaction]))

\* parse_sms after the extraction (lines 176-202): a recognised SMS is
\* stored and read back, an unrecognised one is answered as a value
parse_sms_with(st, parsed, fresh, day) ==
    IF parsed # None
    THEN LET parsed_data == Get(parsed)
             transaction_dict ==
                 TransactionDict(None, parsed_data.amount,
                     parsed_data.description, parsed_data.date,
                     parsed_data.category, parsed_data.type, None,
                     fresh, day)
             st1 == Append(st, transaction_dict)
             created_transaction == FindOne(st1, transaction_dict.id)
         IN  Result(st1, Return([success |-> TRUE,
                 message |-> "Transaction created from SMS",
                 transaction |-> created_transaction,
                 parsed_data |-> parsed]))
    ELSE Result(st, Return([success |-> FALSE,
                 message |-> "Could not parse transaction from SMS",
                 parsed_data |-> None]))

\* a mutant that stores nothing and raises when the SMS is not recognised
parse_sms_raising(st, message, sender, fresh, day) ==
    IF parse_sms_transaction(message, sender, day) = None
    THEN Result(st, HTTPException(400, "Could not parse transaction from SMS"))
    ELSE parse_sms_with(st, parse_sms_transaction(message, sender, day),
                        fresh, day)

\* parse_sms (lines 170-204)
parse_sms(st, message, sender, fresh, day) ==
    parse_sms_with(st, parse_sms_transaction(message, sender, day), fresh, day)

\* a mutant that dates the record by the external timestamp
payment_webhook_external_date(st, service, webhook_data, fresh, day) ==
    IF service \notin DOMAIN PAYMENT_SERVICES
    THEN Result(st, HTTPException(400, "Unsupported payment service"))
    ELSE LET service_config == PAYMENT_SERVICES[service]
             transaction_dict ==
                 [TransactionDict(None, webhook_data.amount,
                      service_config.name \o L_paymentTo \o webhook_data.merchant,
                      webhook_data.timestamp, service_config.category,
                      "expense", None, fresh, day)
                  EXCEPT !.webhook_data = Some(
                      [service |-> service,
                       transaction_id |-> webhook_data.transaction_id,
                       merchant |-> webhook_data.merchant,
                       timestamp |-> webhook_data.timestamp])]
             st1 == Append(st, transaction_dict)
         IN  Result(st1, Return([success |-> TRUE,
                 message |-> <<"Transaction created from webhook", service_config.name>>,
                 transaction |-> FindOne(st1, transaction_dict.id)]))

\* a mutant that never looks the service up before storing
payment_webhook_unchecked(st, service, webhook_data, fresh, day) ==
    Result(Append(st, TransactionDict(None, webhook_data.amount,
                          webhook_data.merchant, day, "Others", "expense",
                          None, fresh, day)),
           Return([success |-> TRUE,
                   message |-> "Transaction created from webhook",
                   transaction |-> None]))

\* payment_webhook (lines 206-242)
payment_webhook(st, service, webhook_data, fresh, day) ==
    IF service \notin DOMAIN PAYMENT_SERVICES
    THEN Result(st, HTTPException(400, "Unsupported payment service"))
    ELSE LET service_config == PAYMENT_SERVICES[service]
             transaction_dict ==
                 [TransactionDict(None, webhook_data.amount,
                      service_config.name \o L_paymentTo \o webhook_data.merchant,
                      day, service_config.category, "expense", None, fresh, day)
                  EXCEPT !.webhook_data = Some(
                      [service |-> service,
                       transaction_id |-> webhook_data.transaction_id,
                       merchant |-> webhook_data.merchant,
                       timestamp |-> webhook_data.timestamp])]
             st1 == Append(st, transaction_dict)
             created_transaction == FindOne(st1, transaction_dict.id)
         IN  Result(st1, Return([success |-> TRUE,
                 message |-> <<"Transaction created from webhook", service_config.name>>,
                 transaction |-> created_transaction]))

\* get_transaction (lines 280-288)
get_transaction(st, transaction_id) ==
    LET transaction == FindOne(st, transaction_id)
    IN  IF transaction = None
        THEN Result(st, HTTPException(404, "Transaction not found"))
        ELSE Result(st, Return(Get(transaction)))

UpdateFields == {"amount", "description", "date", "category", "type"}

\* a mutant that sets the supplied fields on every record of the store
update_transaction_every_record(st, transaction_id, transaction_update) ==
    IF \A i \in 1..Len(st) : st[i].id # transaction_id
    THEN Result(st, HTTPException(404, "Transaction not found"))
    ELSE Result([i \in 1..Len(st) |->
                    [k \in DOMAIN st[i] |->
                        IF k \in UpdateFields /\ transaction_update[k] # None
                        THEN Get(transaction_update[k])
                        ELSE st[i][k]]],
                Return([message |-> "Transaction updated successfully",
                        transaction |-> FindOne(st, transaction_id)]))

\* update_transaction (lines 290-308); transaction_update maps each of the
\* five fields to a value or None
update_transaction(st, transaction_id, transaction_update) ==
    LET update_data == {k \in UpdateFields : transaction_update[k] # None}
        hits == {i \in 1..Len(st) : st[i].id = transaction_id}
    IN  IF update_data = {}
        THEN Result(st, HTTPException(400, "No fields to update"))
        ELSE IF hits = {}
        THEN Result(st, HTTPException(404, "Transaction not found"))
        ELSE LET i == MinOf(hits)
                 doc == [k \in DOMAIN st[i] |->
                            IF k \in update_data THEN Get(transaction_update[k])
                            ELSE st[i][k]]
                 st1 == [st EXCEPT ![i] = doc]
                 updated_transaction == FindOne(st1, transaction_id)
             IN  Result(st1, Return([message |-> "Transaction updated successfully",
                                     transaction |-> updated_transaction]))

\* delete_transaction (lines 310-318)
delete_transaction(st, transaction_id) ==
    LET hits == {i \in 1..Len(st) : st[i].id = transaction_id}
    IN  IF hits = {}
        THEN Result(st, HTTPException(404, "Transaction not found"))
        ELSE LET i == MinOf(hits)
             IN  Result(SubSeq(st, 1, i - 1) \o SubSeq(st, i + 1, Len(st)),
                        Return([message |-> "Transaction deleted successfully"]))

\* sum(t['amount'] for t in transactions if t['type'] == type)
RECURSIVE SumAmounts(_, _)
SumAmounts(st, type) ==
    IF st = <<>> THEN 0
    ELSE (IF st[1].type = type THEN st[1].amount ELSE 0)
         + SumAmounts(Tail(st), type)

\* get_summary (lines 320-344); line 335 indexes {'income': 0, 'expense': 0}
\* by the document's type and raises KeyError for any other type
get_summary(st) ==
    LET total_income == SumAmounts(st, "income")
        total_expenses == SumAmounts(st, "expense")
        balance == total_income - total_expenses
        categories == {st[i].category : i \in 1..Len(st)}
        category_breakdown ==
            [c \in categories |->
                [income |-> SumAmounts(SelectSeq(st, LAMBDA d : d.category = c), "income"),
                 expense |-> SumAmounts(SelectSeq(st, LAMBDA d : d.category = c), "expense")]]
    IN  IF \E i \in 1..Len(st) : st[i].type \notin {"income", "expense"}
        THEN Result(st, [kind |-> "raise", exc |-> "KeyError",
                         detail |-> st[MinOf({i \in 1..Len(st) :
                                        st[i].type \notin {"income", "expense"}})].type])
        ELSE Result(st, Return([total_income |-> total_income,
                                total_expenses |-> total_expenses,
                                balance |-> balance,
                                category_breakdown |-> category_breakdown]))

----------------------------------------------------------------------------
(* The server: one request is handled at a time (uvicorn.run, line 348)    *)

Init ==
    /\ store = <<>>
    /\ today = 1
    /\ nextId = 0
    /\ req = [op |-> "none"]
    /\ resp = [status |-> 0]
    /\ fin = None
    /\ fout = <<>>

\* the handler's result becomes the store and the response
Handled(request, result) ==
    /\ req' = request
    /\ store' = result.store
    /\ resp' = result.resp

\* POST /api/transactions
CreateTransaction ==
    \E id \in {None} \cup {Some(i) : i \in 1..nextId}, amount \in CreateAmounts,
       description \in SrvDescriptions, type \in Types :
        /\ Len(store) < MaxStore
        /\ id = None => nextId < MaxIds
        /\ Handled([op |-> "create", id |-> id, amount |-> amount, type |-> type],
                   create_transaction(store,
                       TransactionDict(id, amount, description, 0, "Food", type,
                                       None, nextId + 1, today)))
        /\ nextId' = IF id = None THEN nextId + 1 ELSE nextId
        /\ UNCHANGED <<today, fin, fout>>

\* a handler that may insert: an insert takes the next uuid4
Ingested(request, result) ==
    /\ Len(result.store) <= MaxStore
    /\ result.store # store => nextId < MaxIds
    /\ Handled(request, result)
    /\ nextId' = IF result.store # store THEN nextId + 1 ELSE nextId
    /\ UNCHANGED <<today, fin, fout>>

\* the body of a webhook request
WebhookData(service, amount, merchant, timestamp) ==
    [service |-> service, transaction_id |-> "TXN123", amount |-> amount,
     merchant |-> merchant, timestamp |-> timestamp]

\* POST /api/parse-sms
ParseSms ==
    \E message \in SrvMessages, sender \in SrvSenders :
        Ingested([op |-> "parse_sms", message |-> message, sender |-> sender],
                 parse_sms(store, message, sender, nextId + 1, today))

\* POST /api/webhook/{service}
PaymentWebhook ==
    \E service \in PathServices, body_service \in BodyServices,
       amount \in WebhookAmounts, merchant \in SrvMerchants,
       timestamp \in Timestamps :
        Ingested([op |-> "webhook", service |-> service,
                  webhook_data |-> WebhookData(body_service, amount, merchant,
                                               timestamp)],
                 payment_webhook(store, service,
                     WebhookData(body_service, amount, merchant, timestamp),
                     nextId + 1, today))

\* GET /api/transactions/{transaction_id}
GetTransaction ==
    \E transaction_id \in 1..(nextId + 1) :
        /\ Handled([op |-> "get", transaction_id |-> transaction_id],
                   get_transaction(store, transaction_id))
        /\ UNCHANGED <<today, nextId, fin, fout>>

\* PUT /api/transactions/{transaction_id}
UpdateTransaction ==
    \E transaction_id \in 1..(nextId + 1), transaction_update \in Updates :
        /\ Handled([op |-> "update", transaction_id |-> transaction_id,
                    transaction_update |-> transaction_update],
                   update_transaction(store, transaction_id, transaction_update))
        /\ UNCHANGED <<today, nextId, fin, fout>>

\* DELETE /api/transactions/{transaction_id}
DeleteTransaction ==
    \E transaction_id \in 1..(nextId + 1) :
        /\ Handled([op |-> "delete", transaction_id |-> transaction_id],
                   delete_transaction(store, transaction_id))
        /\ UNCHANGED <<today, nextId, fin, fout>>

\* GET /api/summary
GetSummary ==
    /\ Handled([op |-> "summary"], get_summary(store))
    /\ UNCHANGED <<today, nextId, fin, fout>>

\* midnight passes
Tick ==
    /\ today < MaxDay
    /\ today' = today + 1
    /\ UNCHANGED <<store, nextId, req, resp, fin, fout>>

Next ==
    \/ CreateTransaction
    \/ ParseSms
    \/ PaymentWebhook
    \/ GetTransaction
    \/ UpdateTransaction
    \/ DeleteTransaction
    \/ GetSummary
    \/ Tick

Spec == Init /\ [][Next]_vars

----------------------------------------------------------------------------
(* The pure functions, each applied to inputs drawn from a bounded set     *)

ServerIdle ==
    /\ store = <<>>
    /\ today = 1
    /\ nextId = 0
    /\ req = [op |-> "none"]
    /\ resp = [status |-> 0]

\* merchant cleanup applied to a raw string, then to its own result
InitNorm == ServerIdle /\ fin \in RawMerchants /\ fout = <<>>

NormalizeStep ==
    /\ Len(fout) < 2
    /\ fout' = Append(fout, CleanMerchant(IF fout = <<>> THEN fin
                                         ELSE fout[Len(fout)]))
    /\ UNCHANGED <<store, today, nextId, req, resp, fin>>

SpecNorm == InitNorm /\ [][NormalizeStep]_vars

\* the categorizer applied to a merchant name
InitCat == ServerIdle /\ fin \in CatMerchants /\ fout = <<>>

CategorizeStep ==
    /\ fout = <<>>
    /\ fout' = <<auto_categorize_transaction(fin)>>
    /\ UNCHANGED <<store, today, nextId, req, resp, fin>>

SpecCat == InitCat /\ [][CategorizeStep]_vars

\* the SMS extractor applied to a message and a sender
InitSms ==
    /\ ServerIdle
    /\ fin \in [message : SmsMessages, sender : SmsSenders]
    /\ fout = <<>>

ExtractStep ==
    /\ fout = <<>>
    /\ fout' = <<parse_sms_transaction(fin.message, fin.sender, today)>>
    /\ UNCHANGED <<store, today, nextId, req, resp, fin>>

SpecSms == InitSms /\ [][ExtractStep]_vars

\* update_transaction applied once to a store that earlier requests left,
\* with every combination of supplied and null fields
UpdAllUpdates ==
    [amount : {None, Some(700)}, description : {None, Some(<<"N">>)},
     date : {None, Some(5)}, category : {None, Some("Bills")},
     type : {None, Some("income")}]

\* the stores one more create or webhook request leaves
UpdInserts(st) ==
    {create_transaction(st,
         TransactionDict(Some(i), 250, <<"L">>, 0, "Food", type, None, i, 1)).store :
         i \in 1..MaxIds, type \in {"expense", "transfer"}}
    \cup {payment_webhook(st, "swiggy",
              WebhookData("swiggy", 30000, <<"Z">>, 2), i, 1).store :
              i \in 1..MaxIds}

\* the stores at most n such requests leave
RECURSIVE UpdStores(_)
UpdStores(n) ==
    IF n = 0 THEN {<<>>}
    ELSE UpdStores(n - 1) \cup UNION {UpdInserts(st) : st \in UpdStores(n - 1)}

InitUpd ==
    /\ store \in UpdStores(MaxStore)
    /\ today = 1
    /\ nextId = MaxIds
    /\ req = [op |-> "none"]
    /\ resp = [status |-> 0]
    /\ fin = None
    /\ fout = <<>>

\* PUT /api/transactions/{transaction_id}, once
UpdateStep ==
    \E transaction_id \in 1..(MaxIds + 1), transaction_update \in UpdAllUpdates :
        /\ req.op = "none"
        /\ Handled([op |-> "update", transaction_id |-> transaction_id,
                    transaction_update |-> transaction_update],
                   update_transaction(store, transaction_id, transaction_update))
        /\ UNCHANGED <<today, nextId, fin, fout>>

SpecUpd == InitUpd /\ [][UpdateStep]_vars

----------------------------------------------------------------------------
(* Several workers on the one database (MONGO_URL, lines 13-17): a handler *)
(* is a sequence of separate database calls, and the calls of different    *)
(* workers interleave.  Here req[w] is what worker w is doing and resp[w]  *)
(* the response it has given.                                              *)

Workers == {"w1", "w2"}

Idle == [pc |-> "idle"]

\* the read-back and answer of create_transaction (lines 275-276)
create_transaction_read(st, transaction_dict) ==
    TryExcept(Return([message |-> "Transaction created successfully",
                      transaction |-> FindOne(st, transaction_dict.id)]))

\* the read-back and answer of parse_sms (lines 189-196)
parse_sms_read(st, transaction_dict, parsed_data) ==
    TryExcept(Return([success |-> TRUE,
                      message |-> "Transaction created from SMS",
                      transaction |-> FindOne(st, transaction_dict.id),
                      parsed_data |-> parsed_data]))

\* the read-back and answer of payment_webhook (lines 234-240)
payment_webhook_read(st, service, transaction_dict) ==
    TryExcept(Return([success |-> TRUE,
                      message |-> <<"Transaction created from webhook",
                                    PAYMENT_SERVICES[service].name>>,
                      transaction |-> FindOne(st, transaction_dict.id)]))

\* the read-back and answer of update_transaction (lines 305-306)
update_transaction_read(st, transaction_id) ==
    TryExcept(Return([message |-> "Transaction updated successfully",
                      transaction |-> FindOne(st, transaction_id)]))

\* the read-back of the handler that inserted
ReadBack(st, request, transaction_dict, parsed_data) ==
    CASE request.op = "create" -> create_transaction_read(st, transaction_dict)
      [] request.op = "parse_sms" ->
             parse_sms_read(st, transaction_dict, parsed_data)
      [] request.op = "webhook" ->
             payment_webhook_read(st, request.service, transaction_dict)

InitConc ==
    /\ store = <<>>
    /\ today = 1
    /\ nextId = 0
    /\ req = [w \in Workers |-> Idle]
    /\ resp = [w \in Workers |-> [status |-> 0]]
    /\ fin = None
    /\ fout = <<>>

\* worker w runs a handler up to its insert_one, where result is what the
\* handler does when nothing interleaves; a handler that inserts nothing
\* answers at once
ConcIngest(w, request, result, parsed_data) ==
    /\ req[w] = Idle
    /\ IF Len(result.store) > Len(store)
       THEN /\ Len(result.store) <= MaxStore
            /\ nextId < MaxIds
            /\ store' = result.store
            /\ nextId' = nextId + 1
            /\ req' = [req EXCEPT ![w] =
                          [pc |-> "inserted", request |-> request,
                           transaction_dict |-> result.store[Len(result.store)],
                           parsed_data |-> parsed_data]]
            /\ resp' = resp
       ELSE /\ req' = [req EXCEPT ![w] = [pc |-> "done", request |-> request]]
            /\ resp' = [resp EXCEPT ![w] = result.resp]
            /\ UNCHANGED <<store, nextId>>
    /\ UNCHANGED <<today, fin, fout>>

\* POST /api/transactions as far as insert_one (lines 272-273)
ConcCreate(w) ==
    ConcIngest(w, [op |-> "create"],
        create_transaction(store,
            TransactionDict(None, 250, <<"L">>, 0, "Food", "expense", None,
                            nextId + 1, today)),
        None)

\* POST /api/parse-sms as far as insert_one (lines 174-187)
ConcParseSms(w) ==
    \E message \in {M_paid, M_otp} :
        ConcIngest(w, [op |-> "parse_sms", message |-> message, sender |-> None],
            parse_sms(store, message, None, nextId + 1, today),
            parse_sms_transaction(message, None, today))

\* POST /api/webhook/{service} as far as insert_one (lines 210-233)
ConcWebhook(w) ==
    \E service \in {"swiggy", "paytm"} :
        ConcIngest(w, [op |-> "webhook", service |-> service],
            payment_webhook(store, service,
                WebhookData("zomato", 30000, <<"Z">>, 2), nextId + 1, today),
            None)

\* find_one and the answer (lines 189-196, 234-240, 275-276)
ConcReadBack(w) ==
    /\ req[w].pc = "inserted"
    /\ resp' = [resp EXCEPT ![w] =
                   ReadBack(store, req[w].request, req[w].transaction_dict,
                            req[w].parsed_data)]
    /\ req' = [req EXCEPT ![w].pc = "done"]
    /\ UNCHANGED <<store, today, nextId, fin, fout>>

\* worker w runs update_transaction up to its update_one, where result is
\* what the handler does when nothing interleaves; an update that is
\* refused answers at once
ConcUpdating(w, request, result) ==
    /\ req[w] = Idle
    /\ store' = result.store
    /\ IF result.resp.status = 200
       THEN /\ req' = [req EXCEPT ![w] = [pc |-> "updated", request |-> request]]
            /\ resp' = resp
       ELSE /\ req' = [req EXCEPT ![w] = [pc |-> "done", request |-> request]]
            /\ resp' = [resp EXCEPT ![w] = result.resp]
    /\ UNCHANGED <<today, nextId, fin, fout>>

\* PUT /api/transactions/{transaction_id} as far as update_one (lines 293-303)
ConcUpdate(w) ==
    \E transaction_id \in 1..MaxIds, transaction_update \in Updates :
        ConcUpdating(w, [op |-> "update", transaction_id |-> transaction_id],
            update_transaction(store, transaction_id, transaction_update))

\* find_one and the answer of update_transaction (lines 305-306)
ConcUpdateRead(w) ==
    /\ req[w].pc = "updated"
    /\ resp' = [resp EXCEPT ![w] =
                   update_transaction_read(store, req[w].request.transaction_id)]
    /\ req' = [req EXCEPT ![w].pc = "done"]
    /\ UNCHANGED <<store, today, nextId, fin, fout>>

\* worker w has run the handler whole, its one database call included
ConcAnswered(w, request, result) ==
    /\ req[w] = Idle
    /\ store' = result.store
    /\ req' = [req EXCEPT ![w] = [pc |-> "done", request |-> request]]
    /\ resp' = [resp EXCEPT ![w] = result.resp]
    /\ UNCHANGED <<today, nextId, fin, fout>>

\* DELETE /api/transactions/{transaction_id}: its one call is delete_one
ConcDelete(w) ==
    \E transaction_id \in 1..MaxIds :
        ConcAnswered(w, [op |-> "delete", transaction_id |-> transaction_id],
            delete_transaction(store, transaction_id))

\* the response is sent and the worker takes the next request
ConcReturn(w) ==
    /\ req[w].pc = "done"
    /\ req' = [req EXCEPT ![w] = Idle]
    /\ resp' = [resp EXCEPT ![w] = [status |-> 0]]
    /\ UNCHANGED <<store, today, nextId, fin, fout>>

NextConc ==
    \E w \in Workers :
        \/ ConcCreate(w)
        \/ ConcParseSms(w)
        \/ ConcWebhook(w)
        \/ ConcReadBack(w)
        \/ ConcUpdate(w)
        \/ ConcUpdateRead(w)
        \/ ConcDelete(w)
        \/ ConcReturn(w)

SpecConc == InitConc /\ [][NextConc]_vars

----------------------------------------------------------------------------
(* The claims                                                              *)

ServiceKeys == DOMAIN PAYMENT_SERVICES

\* C1: a webhook request whose service key is not in PAYMENT_SERVICES is
\* answered with a client error (status 4xx), never a server fault (5xx).
UnknownServiceIsClientError ==
    (req.op = "webhook" /\ req.service \notin ServiceKeys)
        => resp.status \in 400..499

\* C2: merchant cleanup is idempotent: cleaning a cleaned merchant string
\* gives the same string.
NormalizeIdempotent == Len(fout) = 2 => fout[2] = fout[1]

\* the table entries whose bank key occurs in the lower-cased sender
SenderRules(sender) ==
    IF sender = None THEN {}
    ELSE {i \in 1..Len(SMS_PATTERNS) :
             IsSubstring(SMS_PATTERNS[i].bank, Lower(Get(sender)))}

\* the sender's rules that match the trimmed message
MatchingRules(message, sender) ==
    {i \in SenderRules(sender) :
        ReSearch(SMS_PATTERNS[i].pattern, Strip(message)).matched}

\* the match the claimed order settles on: that of the first matching rule
\* of the sender in table order, else that of the generic pattern
ClaimedMatch(message, sender, matching) ==
    ReSearch(IF matching # {} THEN SMS_PATTERNS[MinOf(matching)].pattern
             ELSE PAT_generic,
             Strip(message))

ResultIsOf(result, match) ==
    IF match.matched
    THEN /\ result # None
         /\ Get(result).amount = Float(match.group1).val
         /\ Get(result).merchant = CleanMerchant(match.group2)
    ELSE result = None

\* C3: the result of SMS extraction is built from the first pattern that
\* matches, in the order: the rules whose bank key occurs in the sender, in
\* table order, then the generic fallback (alone when there is no sender).
ExtractUsesFirstMatch ==
    fout # <<>> =>
        ResultIsOf(fout[1],
            ClaimedMatch(fin.message, fin.sender,
                         MatchingRules(fin.message, fin.sender)))

\* a message that a rule of the sender and the generic pattern both match,
\* with different results, has been extracted
ExtractUsesFirstMatchWitness ==
    /\ fout # <<>>
    /\ fout[1] # None
    /\ \E i \in MatchingRules(fin.message, fin.sender) :
           /\ SMS_PATTERNS[i].pattern # PAT_generic
           /\ ReSearch(PAT_generic, Strip(fin.message)).matched
           /\ ReSearch(PAT_generic, Strip(fin.message))
                  # ReSearch(SMS_PATTERNS[i].pattern, Strip(fin.message))

\* the rules of the categorizer in their fixed order
CategoryRules ==
    << [category |-> "Food", keywords |-> FoodKeywords],
       [category |-> "Transport", keywords |-> TransportKeywords],
       [category |-> "Shopping", keywords |-> ShoppingKeywords],
       [category |-> "Bills", keywords |-> BillsKeywords] >>

\* the rules with a keyword occurring in the lower-cased merchant
RulesHit(merchant) ==
    {j \in 1..Len(CategoryRules) :
        \E kw \in Range(CategoryRules[j].keywords) :
            IsSubstring(kw, Lower(merchant))}

CategoryIsFirstHit(category, hit) ==
    /\ hit = {} <=> category = "Others"
    /\ hit # {} => category = CategoryRules[MinOf(hit)].category

\* C4: the categorizer returns, for every merchant, the category of the
\* first rule (Food, Transport, Shopping, Bills) with a keyword occurring in
\* the lower-cased merchant, and "Others" exactly when there is none.
CategorizeFirstRuleWins ==
    fout # <<>> => CategoryIsFirstHit(fout[1], RulesHit(fin))

\* a merchant with a Food and a Transport keyword has been categorized
CategorizeFirstRuleWinsWitness ==
    /\ fout # <<>>
    /\ {1, 2} \subseteq RulesHit(fin)
    /\ fout[1] = "Food"

AmountParses(match) == match.matched => Float(match.group1).ok

\* the amount group of every pattern holds digits with an optional
\* two-digit fraction, so float() on line 111 never fails on a match
AmountGroupAlwaysParses ==
    \A i \in 1..Len(SMS_PATTERNS) :
        AmountParses(ReSearch(SMS_PATTERNS[i].pattern, Strip(fin.message)))

\* C6: every record stored by SMS extraction or by the webhook has a
\* strictly positive amount.
IngestedAmountPositive ==
    (req.op \in {"parse_sms", "webhook"} /\ resp.status = 200
        /\ resp.body.success)
        => store[Len(store)].amount > 0

\* C7: a request for a single transaction whose identifier is not in the
\* store is answered with status 404.
MissingTransactionIs404 ==
    (req.op = "get" /\ FindOne(store, req.transaction_id) = None)
        => resp.status = 404

\* the sum of the amounts of the stored documents at the indices in I
RECURSIVE SumAt(_, _)
SumAt(st, I) ==
    IF I = {} THEN 0
    ELSE st[MaxOf(I)].amount + SumAt(st, I \ {MaxOf(I)})

\* C8: the summary reports total_income and total_expenses as the sums of
\* the amounts of the stored income and expense transactions, and balance
\* as their difference.
SummaryReportsTotals ==
    req.op = "summary" =>
        /\ resp.status = 200
        /\ resp.body.total_income =
               SumAt(store, {i \in 1..Len(store) : store[i].type = "income"})
        /\ resp.body.total_expenses =
               SumAt(store, {i \in 1..Len(store) : store[i].type = "expense"})
        /\ resp.body.balance =
               resp.body.total_income - resp.body.total_expenses

\* the document the webhook is claimed to store for a request on a day
ClaimedWebhookDocument(request, id, day) ==
    [id |-> id,
     amount |-> request.webhook_data.amount,
     description |-> PAYMENT_SERVICES[request.service].name
                         \o <<" ","p","a","y","m","e","n","t"," ","t","o"," ">>
                         \o request.webhook_data.merchant,
     date |-> day,
     category |-> PAYMENT_SERVICES[request.service].category,
     type |-> "expense",
     created_at |-> day,
     webhook_data |-> Some([service |-> request.service,
                            transaction_id |-> request.webhook_data.transaction_id,
                            merchant |-> request.webhook_data.merchant,
                            timestamp |-> request.webhook_data.timestamp])]

\* C9: a webhook whose service key is in PAYMENT_SERVICES stores one new
\* record with description "{display name} payment to {merchant}", the
\* service's category, type "expense", the current day as date, and a
\* provenance block of exactly the service key, external transaction id,
\* merchant and external timestamp.
WebhookStoresCanonical ==
    [][(today' = today /\ req'.op = "webhook" /\ req'.service \in ServiceKeys)
          => store' = Append(store, ClaimedWebhookDocument(req', nextId', today))]_vars

\* a webhook of a known service has been stored on a day other than its
\* external timestamp, its payload naming another service than the path
WebhookStoresCanonicalWitness ==
    /\ req.op = "webhook"
    /\ req.service \in ServiceKeys
    /\ resp.status = 200
    /\ req.webhook_data.timestamp # today
    /\ req.webhook_data.service # req.service
    /\ store # <<>>
    /\ store[Len(store)].webhook_data # None
    /\ store[Len(store)].date = today

\* no pattern tried for the sender matches the trimmed message
NoPatternMatches(message, sender) ==
    \A j \in 1..Len(PatternsToTry(sender)) :
        ~ReSearch(PatternsToTry(sender)[j], Strip(message)).matched

\* the server's SMS inputs that no pattern matches, evaluated once
SrvUnmatched ==
    UNION {IF NoPatternMatches(m, s) THEN {<<m, s>>} ELSE {} :
              m \in SrvMessages, s \in SrvSenders}

\* C10: when no pattern matches the SMS, the parse-sms operation answers
\* normally with success = false and parsed_data = null, and leaves the
\* store unchanged.
ParseSmsNoMatchIsValue ==
    [][(today' = today /\ req'.op = "parse_sms"
           /\ <<req'.message, req'.sender>> \in SrvUnmatched)
          => /\ resp'.status = 200
             /\ resp'.body.success = FALSE
             /\ resp'.body.parsed_data = None
             /\ store' = store]_vars

\* a whitespace-only SMS has been answered while the store held a record
ParseSmsNoMatchIsValueWitness ==
    /\ req.op = "parse_sms"
    /\ req.message # <<>>
    /\ Strip(req.message) = <<>>
    /\ <<req.message, req.sender>> \in SrvUnmatched
    /\ resp.status = 200
    /\ ~resp.body.success
    /\ store # <<>>

\* C11: a webhook whose service key is not in PAYMENT_SERVICES is rejected
\* whatever its payload: the answer is not a success and the store is left
\* exactly as it was.
UnknownServiceLeavesStore ==
    [][(today' = today /\ req'.op = "webhook" /\ req'.service \notin ServiceKeys)
          => /\ resp'.status # 200
             /\ store' = store]_vars

\* a webhook of an unknown service, its payload naming a known one, has
\* been rejected while the store held a record
UnknownServiceLeavesStoreWitness ==
    /\ req.op = "webhook"
    /\ req.service \notin ServiceKeys
    /\ req.webhook_data.service \in ServiceKeys
    /\ resp.status # 200
    /\ store # <<>>

\* the fields an update supplies with a non-null value
SuppliedFields(transaction_update) ==
    {k \in UpdateFields : transaction_update[k] # None}

\* a record is as it was, or has the identifier and differs at most in the
\* supplied fields
RecordKept(old, new, id, supplied) ==
    \/ new = old
    \/ /\ old.id = id
       /\ DOMAIN new = DOMAIN old
       /\ \A k \in DOMAIN old \ supplied : new[k] = old[k]

UpdateFrame(st, st2, id, supplied) ==
    /\ Len(st2) = Len(st)
    /\ \A i \in 1..Len(st) : RecordKept(st[i], st2[i], id, supplied)
    /\ (supplied = {} \/ \A i \in 1..Len(st) : st[i].id # id) => st2 = st

\* C13: an update changes only the supplied non-null fields of the record
\* with the given identifier: its id, created_at and unsupplied fields and
\* every other record stay as they were, and an update with no supplied
\* field or for an identifier not in the store changes nothing.
UpdateChangesOnlySupplied ==
    [][req'.op = "update"
          => UpdateFrame(store, store', req'.transaction_id,
                         SuppliedFields(req'.transaction_update))]_vars

\* an update supplying some fields and not others has succeeded on a
\* webhook record in a store that holds a record of another identifier
UpdateChangesOnlySuppliedWitness ==
    /\ req.op = "update"
    /\ resp.status = 200
    /\ SuppliedFields(req.transaction_update) \notin {{}, UpdateFields}
    /\ \E i, j \in 1..Len(store) :
           /\ store[i].id = req.transaction_id
           /\ store[i].webhook_data # None
           /\ store[i].category = "Bills"
           /\ store[j].id # req.transaction_id

\* the response of an inserting operation reports success
ReportsSuccess(request, response) ==
    /\ request.op \in {"create", "parse_sms", "webhook"}
    /\ response.status = 200
    /\ request.op = "create" \/ response.body.success

\* C12: whenever create, parse-sms or webhook reports success, the
\* transaction of its response is the record it inserted: not null and
\* carrying the identifier assigned at the insert, whatever other workers
\* did between the insert and the read-back.
SuccessWrapsInserted ==
    \A w \in Workers :
        (req[w].pc = "done" /\ ReportsSuccess(req[w].request, resp[w]))
            => /\ resp[w].body.transaction # None
               /\ Get(resp[w].body.transaction).id = req[w].transaction_dict.id

====
